---- MODULE Spec2Model ----
(***************************************************************************)
(* Model of advanced-vector/vector.h: RawMemory<T> (raw storage) and       *)
(* Vector<T> (typed sequence over one RawMemory).                           *)
(*                                                                         *)
(* A buffer is a sequence of slots; a slot is "raw" (no object) or holds   *)
(* the state of a live T: a value, or "mf" (moved-from).  C++ index i is   *)
(* slot i+1 of the sequence.  Every handler is an operator from the        *)
(* vector, its arguments and a fault choice to a result record; the fault  *)
(* choice f names which throwing T operation of the call throws (0: none), *)
(* oom says that operator new throws.                                      *)
(***************************************************************************)
EXTENDS Integers, Sequences, FiniteSets, TLC

VARIABLES vec, tkind, last, clean, pushes

vars == <<vec, tkind, last, clean, pushes>>

\* ---------------------------------------------------------------- bounds
MaxCap == 4          \* largest capacity explored
OtherCap == 2        \* largest capacity of an argument vector

\* ------------------------------------------------------------ element type
DefaultValue == "d"                      \* the value of T()
Values == {DefaultValue, "x"}            \* values a live T can be given
Objects == Values \cup {"mf"}            \* states of a live T
\* nothrow:  is_nothrow_move_constructible, copyable
\* copying:  move constructor may throw, copy constructible
\* moveonly: move constructor may throw, not copy constructible
TKinds == {"nothrow", "copying", "moveonly"}
Copyable(k) == k # "moveonly"
MoveCtorThrows(k) == k # "nothrow"

\* ------------------------------------------------------------ slot helpers
RawSeq(c) == [i \in 1..c |-> "raw"]

SetRange(s, from, n, val) ==
    [i \in DOMAIN s |-> IF i > from /\ i <= from + n THEN val ELSE s[i]]

CopyRange(src, sfrom, n, dst, dfrom) ==
    [i \in DOMAIN dst |->
        IF i > dfrom /\ i <= dfrom + n THEN src[sfrom + (i - dfrom)] ELSE dst[i]]

LiveIn(s, from, n) ==
    Cardinality({i \in DOMAIN s : i > from /\ i <= from + n /\ s[i] # "raw"})

LiveCount(s) == LiveIn(s, 0, Len(s))

Max(a, b) == IF a >= b THEN a ELSE b
Min(a, b) == IF a <= b THEN a ELSE b

\* ------------------------------------------------------------- RawMemory
\* Allocate(n): operator new unless n = 0 (then nullptr, no allocation)
Allocate(n) == [buf |-> RawSeq(n), allocs |-> IF n # 0 THEN 1 ELSE 0]

\* ~RawMemory: Deallocate(buffer_); objects still live in it are never destroyed
Deallocate(buf) == [frees |-> IF Len(buf) # 0 THEN 1 ELSE 0, lost |-> LiveCount(buf)]

\* ------------------------------------------------------- <memory> algorithms
\* std::uninitialized_copy_n: on a throw destroys what it constructed
UninitCopyN(src, sfrom, n, dst, dfrom, f) ==
    LET threw == f >= 1 /\ f <= n
        done  == IF threw THEN f - 1 ELSE n
    IN [src   |-> src,
        dst   |-> IF threw THEN SetRange(dst, dfrom, done, "raw")
                           ELSE CopyRange(src, sfrom, n, dst, dfrom),
        threw |-> threw,
        pts   |-> n,
        over  |-> LiveIn(dst, dfrom, done)]

\* std::uninitialized_move_n: the sources it got through are moved-from
UninitMoveN(src, sfrom, n, dst, dfrom, f, canThrow) ==
    LET threw == canThrow /\ f >= 1 /\ f <= n
        done  == IF threw THEN f - 1 ELSE n
    IN [src   |-> SetRange(src, sfrom, done, "mf"),
        dst   |-> IF threw THEN SetRange(dst, dfrom, done, "raw")
                           ELSE CopyRange(src, sfrom, n, dst, dfrom),
        threw |-> threw,
        pts   |-> IF canThrow THEN n ELSE 0,
        over  |-> LiveIn(dst, dfrom, done)]

\* std::uninitialized_value_construct_n
UninitValueConstructN(dst, dfrom, n, f) ==
    LET threw == f >= 1 /\ f <= n
        done  == IF threw THEN f - 1 ELSE n
    IN [dst   |-> IF threw THEN SetRange(dst, dfrom, done, "raw")
                           ELSE SetRange(dst, dfrom, n, DefaultValue),
        threw |-> threw,
        pts   |-> n,
        over  |-> LiveIn(dst, dfrom, done)]

\* std::destroy_n
DestroyN(s, from, n) == SetRange(s, from, n, "raw")

\* the fault choice left for the code after a step with pts throwing points
Rest(f, pts) == IF f > pts THEN f - pts ELSE 0

\* (variant: the elements are always moved, whatever T's traits)
Uninitialized_Move_Or_Copy_N_AlwaysMove(k, src, sfrom, n, dst, dfrom, f) ==
    UninitMoveN(src, sfrom, n, dst, dfrom, f, MoveCtorThrows(k))

\* Vector::Uninitialized_Move_Or_Copy_N
Uninitialized_Move_Or_Copy_N(k, src, sfrom, n, dst, dfrom, f) ==
    IF k = "nothrow" \/ ~Copyable(k)
    THEN UninitMoveN(src, sfrom, n, dst, dfrom, f, MoveCtorThrows(k))
    ELSE UninitCopyN(src, sfrom, n, dst, dfrom, f)

\* ---------------------------------------------------------------- results
\* slots, size: the vector after the call; outcome: "ok" (returned), "throw"
\* (an exception left the call), "ub" (the call ran into undefined behaviour
\* and the process is gone); ret: index the returned iterator designates;
\* lostNew: objects left live in a released new buffer; lost: other objects
\* whose storage was released or reused without their destructor running;
\* allocs/frees: buffers obtained from / returned to the heap; pts: throwing
\* points the call went through; stage: the step that threw ("alloc": operator
\* new, "construct": the new element, "relocate": a move or copy into the new
\* buffer, "last": the move of the last element, "shift": an assignment of a
\* shift, "assign": an element assignment, "fill": a value or copy
\* construction into the vector's own buffer).
Result(slots, size, outcome) ==
    [slots |-> slots, size |-> size, outcome |-> outcome, ret |-> -1,
     lostNew |-> 0, lost |-> 0, allocs |-> 0, frees |-> 0, pts |-> 0,
     stage |-> IF outcome = "ok" THEN "-" ELSE "alloc"]

\* assert(cond) with cond false, NDEBUG not defined: the program is aborted
\* before the call changes anything
AssertFails(v) == [Result(v.slots, v.size, "assert") EXCEPT !.stage = "assert"]

Capacity(v) == Len(v.slots)
Size(v) == v.size

\* (variant: the early return tests < instead of <=)
ReserveStrict(k, v, c, f, oom) ==
    IF c < Capacity(v) \/ c = 0 THEN Result(v.slots, v.size, "ok")
    ELSE IF oom THEN Result(v.slots, v.size, "throw")
    ELSE LET nd  == Allocate(c)
             rel == Uninitialized_Move_Or_Copy_N(k, v.slots, 0, v.size, nd.buf, 0, f)
         IN IF rel.threw
            THEN [Result(rel.src, v.size, "throw") EXCEPT !.stage = "relocate",
                    !.lostNew = Deallocate(rel.dst).lost,
                    !.allocs = nd.allocs, !.frees = Deallocate(rel.dst).frees,
                    !.pts = rel.pts]
            ELSE LET old == DestroyN(rel.src, 0, v.size)
                 IN [Result(rel.dst, v.size, "ok") EXCEPT
                        !.lost = Deallocate(old).lost,
                        !.allocs = nd.allocs, !.frees = Deallocate(old).frees,
                        !.pts = rel.pts]

\* (variant: the new buffer is filled but never swapped in)
ReserveNoSwap(k, v, c, f, oom) ==
    IF c <= Capacity(v) THEN Result(v.slots, v.size, "ok")
    ELSE IF oom THEN Result(v.slots, v.size, "throw")
    ELSE LET nd  == Allocate(c)
             rel == Uninitialized_Move_Or_Copy_N(k, v.slots, 0, v.size, nd.buf, 0, f)
         IN IF rel.threw
            THEN [Result(rel.src, v.size, "throw") EXCEPT !.stage = "relocate",
                    !.lostNew = Deallocate(rel.dst).lost,
                    !.allocs = nd.allocs, !.frees = Deallocate(rel.dst).frees,
                    !.pts = rel.pts]
            ELSE [Result(DestroyN(rel.src, 0, v.size), v.size, "ok") EXCEPT
                    !.lostNew = Deallocate(rel.dst).lost,
                    !.allocs = nd.allocs, !.frees = Deallocate(rel.dst).frees,
                    !.pts = rel.pts]

\* Vector::Reserve
Reserve(k, v, c, f, oom) ==
    IF c <= Capacity(v) THEN Result(v.slots, v.size, "ok")
    ELSE IF oom THEN Result(v.slots, v.size, "throw")
    ELSE LET nd  == Allocate(c)
             rel == Uninitialized_Move_Or_Copy_N(k, v.slots, 0, v.size, nd.buf, 0, f)
         IN IF rel.threw
            THEN [Result(rel.src, v.size, "throw") EXCEPT !.stage = "relocate",
                    !.lostNew = Deallocate(rel.dst).lost,
                    !.allocs = nd.allocs, !.frees = Deallocate(rel.dst).frees,
                    !.pts = rel.pts]
            ELSE LET old == DestroyN(rel.src, 0, v.size)
                 IN [Result(rel.dst, v.size, "ok") EXCEPT
                        !.lost = Deallocate(old).lost,
                        !.allocs = nd.allocs, !.frees = Deallocate(old).frees,
                        !.pts = rel.pts]

\* (variant: grows by one slot instead of doubling)
GrowCapacityByOne(n) == n + 1

\* the capacity of the new buffer of a full, non-empty vector: size_ * 2
GrowCapacity(n) == n * 2

\* placement new at C++ index i; an object already live there is lost
PlaceNew(s, i, x) == [s EXCEPT ![i + 1] = x]
Over(s, i) == IF s[i + 1] # "raw" THEN 1 ELSE 0

\* Vector::PushBack(const T&) / PushBack(T&&) / EmplaceBack share one body;
\* ctorThrows: whether constructing the new element can throw
AppendImpl(k, v, x, f, oom, ctorThrows) ==
    LET cpts   == IF ctorThrows THEN 1 ELSE 0
        cthrow == ctorThrows /\ f = 1
    IN
    IF v.size = Capacity(v) THEN
        IF v.size = 0 THEN
            LET r == Reserve(k, v, 1, 0, oom)
            IN IF r.outcome # "ok" THEN r
               ELSE IF cthrow THEN [r EXCEPT !.stage = "construct",
                       !.outcome = "throw", !.pts = cpts]
               ELSE [r EXCEPT !.slots = PlaceNew(r.slots, v.size, x),
                              !.size = v.size + 1, !.pts = cpts]
        ELSE IF oom THEN Result(v.slots, v.size, "throw")
        ELSE
            LET nd == Allocate(GrowCapacity(v.size))
            IN IF cthrow
               THEN [Result(v.slots, v.size, "throw") EXCEPT !.stage = "construct",
                        !.lostNew = Deallocate(nd.buf).lost,
                        !.allocs = nd.allocs, !.frees = Deallocate(nd.buf).frees,
                        !.pts = cpts]
               ELSE
               LET nb  == PlaceNew(nd.buf, v.size, x)
                   rel == Uninitialized_Move_Or_Copy_N(k, v.slots, 0, v.size, nb, 0,
                                                        Rest(f, cpts))
               IN IF rel.threw
                  THEN [Result(rel.src, v.size, "throw") EXCEPT !.stage = "relocate",
                          !.lostNew = Deallocate(rel.dst).lost,
                          !.allocs = nd.allocs, !.frees = Deallocate(rel.dst).frees,
                          !.pts = cpts + rel.pts]
                  ELSE LET old == DestroyN(rel.src, 0, v.size)
                       IN [Result(rel.dst, v.size + 1, "ok") EXCEPT
                              !.lost = Deallocate(old).lost,
                              !.allocs = nd.allocs, !.frees = Deallocate(old).frees,
                              !.pts = cpts + rel.pts]
    ELSE
        IF cthrow THEN [Result(v.slots, v.size, "throw") EXCEPT !.stage = "construct", !.pts = cpts]
        ELSE [Result(PlaceNew(v.slots, v.size, x), v.size + 1, "ok") EXCEPT
                !.lost = Over(v.slots, v.size), !.pts = cpts]

\* (variant: the element is value-constructed, the argument is dropped)
PushBackDefault(k, v, x, f, oom) == AppendImpl(k, v, DefaultValue, f, oom, TRUE)

\* Vector::PushBack(const T&): the element is copy-constructed
PushBack(k, v, x, f, oom) == AppendImpl(k, v, x, f, oom, TRUE)

\* Vector::PushBack(T&&): the element is move-constructed
PushBackMove(k, v, x, f, oom) == AppendImpl(k, v, x, f, oom, MoveCtorThrows(k))

\* Vector::EmplaceBack: the element is constructed from args; returns data_[size_-1]
EmplaceBack(k, v, x, f, oom) ==
    LET r == AppendImpl(k, v, x, f, oom, TRUE)
    IN IF r.outcome = "ok" THEN [r EXCEPT !.ret = r.size - 1] ELSE r

\* (variant: size_ is decremented, the element is not destroyed)
PopBackNoDestroy(v) ==
    IF v.size > 0
    THEN Result(v.slots, v.size - 1, "ok")
    ELSE Result(v.slots, v.size, "ok")

\* Vector::PopBack
PopBack(v) ==
    IF v.size > 0
    THEN Result(DestroyN(v.slots, v.size - 1, 1), v.size - 1, "ok")
    ELSE Result(v.slots, v.size, "ok")

\* (variant: shrinking only lowers size_, the tail is not destroyed)
ResizeNoDestroy(k, v, n, f, oom) ==
    LET r == Reserve(k, v, n, f, oom)
    IN IF r.outcome # "ok" THEN r
       ELSE IF r.size > n
            THEN [r EXCEPT !.size = n]
       ELSE IF r.size < n
            THEN LET c == UninitValueConstructN(r.slots, r.size, n - r.size, Rest(f, r.pts))
                 IN IF c.threw
                    THEN [r EXCEPT !.stage = "fill", !.slots = c.dst, !.outcome = "throw",
                                   !.lost = r.lost + c.over, !.pts = r.pts + c.pts]
                    ELSE [r EXCEPT !.slots = c.dst, !.size = n,
                                   !.lost = r.lost + c.over, !.pts = r.pts + c.pts]
       ELSE r

\* Vector::Resize
Resize(k, v, n, f, oom) ==
    LET r == Reserve(k, v, n, f, oom)
    IN IF r.outcome # "ok" THEN r
       ELSE IF r.size > n
            THEN [r EXCEPT !.slots = DestroyN(r.slots, n, r.size - n), !.size = n]
       ELSE IF r.size < n
            THEN LET c == UninitValueConstructN(r.slots, r.size, n - r.size, Rest(f, r.pts))
                 IN IF c.threw
                    THEN [r EXCEPT !.stage = "fill", !.slots = c.dst, !.outcome = "throw",
                                   !.lost = r.lost + c.over, !.pts = r.pts + c.pts]
                    ELSE [r EXCEPT !.slots = c.dst, !.size = n,
                                   !.lost = r.lost + c.over, !.pts = r.pts + c.pts]
       ELSE r

\* T& operator=(T&&) from C++ index src to C++ index dst (src # dst)
MoveAssign(s, src, dst) == [s EXCEPT ![dst + 1] = s[src + 1], ![src + 1] = "mf"]

\* std::move_backward(.., last, d_last), the first j assignments:
\* *--d_last = std::move(*--last)
RECURSIVE MoveBackward(_, _, _, _)
MoveBackward(s, lst, dlast, j) ==
    IF j = 0 THEN s
    ELSE MoveBackward(MoveAssign(s, lst - 1, dlast - 1), lst - 1, dlast - 1, j - 1)

\* std::move(first, .., d_first), the first j assignments:
\* *d_first++ = std::move(*first++)
RECURSIVE MoveForward(_, _, _, _)
MoveForward(s, first, dfirst, j) ==
    IF j = 0 THEN s
    ELSE MoveForward(MoveAssign(s, first, dfirst), first + 1, dfirst + 1, j - 1)

\* what a build does with std::move / std::move_backward on a range whose
\* first lies after its last (undefined): the counted loop runs zero times,
\* or the memmove of a negative length brings the process down
InvertedRange == {"noop", "crash"}

\* Vector::Emplace, size_ < Capacity()
EmplaceInPlace(k, v, p, x, f, ctorThrows, ubc) ==
    LET n     == v.size
        cpts  == IF ctorThrows THEN 1 ELSE 0
        mpts  == IF MoveCtorThrows(k) THEN 1 ELSE 0
        f2    == Rest(f, cpts)
        f3    == Rest(f2, mpts)
        cnt   == n - 1 - p                       \* length of [begin+p, end-1)
        s2    == [PlaceNew(v.slots, n, v.slots[n]) EXCEPT ![n] = "mf"]
        over  == Over(v.slots, n)
        steps == IF cnt > 0 THEN cnt ELSE 0
        f4    == Rest(f3, steps)
        s3    == MoveBackward(s2, n - 1, n, steps)
    IN
    IF n # 0 THEN
        IF ctorThrows /\ f = 1 THEN [Result(v.slots, n, "throw") EXCEPT !.stage = "construct",
                !.pts = cpts]
        ELSE IF MoveCtorThrows(k) /\ f2 = 1
             THEN [Result(v.slots, n, "throw") EXCEPT !.stage = "last", !.pts = cpts + mpts]
        ELSE IF cnt < 0 /\ ubc = "crash"
             THEN [Result(s2, n, "ub") EXCEPT !.stage = "range", !.lost = over]
        ELSE IF f3 >= 1 /\ f3 <= steps
             THEN [Result(MoveBackward(s2, n - 1, n, f3 - 1), n, "throw") EXCEPT !.stage = "shift",
                     !.lost = over, !.pts = cpts + mpts + steps]
        ELSE IF f4 = 1
             THEN [Result(s3, n, "throw") EXCEPT !.stage = "assign",
                     !.lost = over, !.pts = cpts + mpts + steps + 1]
        ELSE [Result(PlaceNew(s3, p, x), n + 1, "ok") EXCEPT
                !.ret = p, !.lost = over, !.pts = cpts + mpts + steps + 1]
    ELSE
        IF ctorThrows /\ f = 1 THEN [Result(v.slots, n, "throw") EXCEPT !.stage = "construct",
                !.pts = cpts]
        ELSE [Result(PlaceNew(v.slots, p, x), n + 1, "ok") EXCEPT
                !.ret = p, !.lost = Over(v.slots, p), !.pts = cpts]

\* Vector::Emplace, size_ == Capacity()
EmplaceGrow(k, v, p, x, f, oom, ctorThrows) ==
    LET n      == v.size
        cpts   == IF ctorThrows THEN 1 ELSE 0
        cthrow == ctorThrows /\ f = 1
    IN
    IF n = 0 THEN
        LET r == Reserve(k, v, 1, 0, oom)
        IN IF r.outcome # "ok" THEN r
           ELSE IF cthrow THEN [r EXCEPT !.stage = "construct", !.outcome = "throw", !.pts = cpts]
           ELSE [r EXCEPT !.slots = PlaceNew(r.slots, n, x), !.size = n + 1,
                          !.ret = n, !.pts = cpts]
    ELSE IF oom THEN Result(v.slots, n, "throw")
    ELSE
        LET nd == Allocate(GrowCapacity(n))
        IN IF cthrow
           THEN [Result(v.slots, n, "throw") EXCEPT !.stage = "construct",
                    !.lostNew = Deallocate(nd.buf).lost,
                    !.allocs = nd.allocs, !.frees = Deallocate(nd.buf).frees,
                    !.pts = cpts]
           ELSE
           LET nb   == PlaceNew(nd.buf, p, x)
               rel1 == Uninitialized_Move_Or_Copy_N(k, v.slots, 0, p, nb, 0, Rest(f, cpts))
               rel2 == Uninitialized_Move_Or_Copy_N(k, rel1.src, p, n - p, rel1.dst, p + 1,
                                                     Rest(Rest(f, cpts), rel1.pts))
           IN IF rel1.threw
              THEN [Result(rel1.src, n, "throw") EXCEPT !.stage = "relocate",
                      !.lostNew = Deallocate(rel1.dst).lost,
                      !.allocs = nd.allocs, !.frees = Deallocate(rel1.dst).frees,
                      !.pts = cpts + rel1.pts]
              ELSE IF rel2.threw
              THEN [Result(rel2.src, n, "throw") EXCEPT !.stage = "relocate",
                      !.lostNew = Deallocate(rel2.dst).lost,
                      !.allocs = nd.allocs, !.frees = Deallocate(rel2.dst).frees,
                      !.pts = cpts + rel1.pts + rel2.pts]
              ELSE LET old == DestroyN(rel2.src, 0, n)
                   IN [Result(rel2.dst, n + 1, "ok") EXCEPT
                          !.ret = p,
                          !.lost = Deallocate(old).lost,
                          !.allocs = nd.allocs, !.frees = Deallocate(old).frees,
                          !.pts = cpts + rel1.pts + rel2.pts]

\* Vector::Emplace; pos is the C++ index p, asserted to lie in [0, size_]
Emplace(k, v, p, x, f, oom, ctorThrows, ubc) ==
    IF ~(p >= 0 /\ p <= v.size) THEN AssertFails(v)
    ELSE IF v.size = Capacity(v)
    THEN EmplaceGrow(k, v, p, x, f, oom, ctorThrows)
    ELSE EmplaceInPlace(k, v, p, x, f, ctorThrows, ubc)

\* Vector::Insert(const_iterator, const T&)
Insert(k, v, p, x, f, oom, ubc) == Emplace(k, v, p, x, f, oom, TRUE, ubc)

\* Vector::Insert(const_iterator, T&&)
InsertMove(k, v, p, x, f, oom, ubc) == Emplace(k, v, p, x, f, oom, MoveCtorThrows(k), ubc)

\* size_t arithmetic is modular; the model keeps a narrow size_t
SizeModulus == 256

\* (variant: the last element is destroyed, nothing is shifted)
EraseNoShift(v, p, f, ubc) ==
    LET n == v.size
    IN
    IF ~(p >= 0 /\ p <= n) THEN AssertFails(v)
    ELSE IF n - p - 1 < 0 /\ ubc = "crash"
    THEN [Result(v.slots, n, "ub") EXCEPT !.stage = "range"]
    ELSE IF n > 0
         THEN [Result(DestroyN(v.slots, n - 1, 1), n - 1, "ok") EXCEPT !.ret = p]
         ELSE [Result(v.slots, (n - 1) % SizeModulus, "ub") EXCEPT !.stage = "range", !.ret = p]

\* Vector::Erase; pos is the C++ index p, asserted to lie in [0, size_]
Erase(v, p, f, ubc) ==
    LET n   == v.size
        cnt == n - p - 1                         \* length of [pos+1, end)
    IN
    IF ~(p >= 0 /\ p <= n) THEN AssertFails(v)
    ELSE IF cnt >= 0 THEN
        IF f >= 1 /\ f <= cnt
        THEN [Result(MoveForward(v.slots, p + 1, p, f - 1), n, "throw") EXCEPT !.stage = "shift",
                !.pts = cnt]
        ELSE [Result(DestroyN(MoveForward(v.slots, p + 1, p, cnt), n - 1, 1), n - 1, "ok")
                EXCEPT !.ret = p, !.pts = cnt]
    ELSE IF ubc = "crash" THEN [Result(v.slots, n, "ub") EXCEPT !.stage = "range"]
    ELSE IF n > 0
         THEN [Result(DestroyN(v.slots, n - 1, 1), n - 1, "ok") EXCEPT !.ret = p]
         ELSE [Result(v.slots, (n - 1) % SizeModulus, "ub") EXCEPT !.stage = "range", !.ret = p]

\* (variant: a plain construction loop, nothing is unwound on a throw)
SizedCtorNoUnwind(n, f, oom) ==
    IF oom /\ n # 0 THEN Result(<<>>, 0, "throw")
    ELSE LET nd == Allocate(n)
             c  == UninitValueConstructN(nd.buf, 0, n, f)
             built == SetRange(nd.buf, 0, f - 1, DefaultValue)
         IN IF c.threw
            THEN [Result(<<>>, 0, "throw") EXCEPT !.stage = "fill",
                    !.lostNew = Deallocate(built).lost,
                    !.allocs = nd.allocs, !.frees = Deallocate(built).frees,
                    !.pts = c.pts]
            ELSE [Result(c.dst, n, "ok") EXCEPT !.allocs = nd.allocs, !.pts = c.pts]

\* Vector::Vector(size_t)
SizedCtor(n, f, oom) ==
    IF oom /\ n # 0 THEN Result(<<>>, 0, "throw")
    ELSE LET nd == Allocate(n)
             c  == UninitValueConstructN(nd.buf, 0, n, f)
         IN IF c.threw
            THEN [Result(<<>>, 0, "throw") EXCEPT !.stage = "fill",
                    !.lostNew = Deallocate(c.dst).lost,
                    !.allocs = nd.allocs, !.frees = Deallocate(c.dst).frees,
                    !.pts = c.pts]
            ELSE [Result(c.dst, n, "ok") EXCEPT !.allocs = nd.allocs, !.pts = c.pts]

\* (variant: the copy is given the capacity of the source)
CopyCtorFullCapacity(other, f, oom) ==
    IF oom /\ Capacity(other) # 0 THEN Result(<<>>, 0, "throw")
    ELSE LET nd == Allocate(Capacity(other))
             c  == UninitCopyN(other.slots, 0, other.size, nd.buf, 0, f)
         IN IF c.threw
            THEN [Result(<<>>, 0, "throw") EXCEPT !.stage = "fill",
                    !.lostNew = Deallocate(c.dst).lost,
                    !.allocs = nd.allocs, !.frees = Deallocate(c.dst).frees,
                    !.pts = c.pts]
            ELSE [Result(c.dst, other.size, "ok") EXCEPT !.allocs = nd.allocs, !.pts = c.pts]

\* Vector::Vector(const Vector&)
CopyCtor(other, f, oom) ==
    IF oom /\ other.size # 0 THEN Result(<<>>, 0, "throw")
    ELSE LET nd == Allocate(other.size)
             c  == UninitCopyN(other.slots, 0, other.size, nd.buf, 0, f)
         IN IF c.threw
            THEN [Result(<<>>, 0, "throw") EXCEPT !.stage = "fill",
                    !.lostNew = Deallocate(c.dst).lost,
                    !.allocs = nd.allocs, !.frees = Deallocate(c.dst).frees,
                    !.pts = c.pts]
            ELSE [Result(c.dst, other.size, "ok") EXCEPT !.allocs = nd.allocs, !.pts = c.pts]

\* Vector::~Vector followed by ~RawMemory
Dtor(v) ==
    LET s == DestroyN(v.slots, 0, v.size)
    IN [Result(<<>>, 0, "ok") EXCEPT
          !.lost = Deallocate(s).lost, !.frees = Deallocate(s).frees]

\* (variant: the buffer pointer is copied, the other side keeps its own)
SwapDataKeep(a, b) == [mine |-> b.slots, theirs |-> b.slots]

\* RawMemory::Swap via data_.Swap(other.data_)
SwapData(a, b) == [mine |-> b.slots, theirs |-> a.slots]

\* (variant: the size is copied, the other side keeps its own)
SwapSizeOneWay(a, b) == [mine |-> b.size, theirs |-> b.size]

\* std::swap(size_, other.size_)
SwapSize(a, b) == [mine |-> b.size, theirs |-> a.size]

\* Vector::Swap: the pair (this, other) after the call
Swap(v, other) ==
    [mine   |-> [slots |-> SwapData(v, other).mine,   size |-> SwapSize(v, other).mine],
     theirs |-> [slots |-> SwapData(v, other).theirs, size |-> SwapSize(v, other).theirs]]

\* (variant: the assignment loop stops one element early)
AssignPrefixOffByOne(dst, src, j) == [i \in DOMAIN dst |-> IF i < j THEN src[i] ELSE dst[i]]

\* copy assignment T& operator=(const T&) of the first m elements, j done
AssignPrefix(dst, src, j) == [i \in DOMAIN dst |-> IF i <= j THEN src[i] ELSE dst[i]]

\* (variant: the in-place path sets size_ = rhs.Size() before it copies the tail)
CopyAssignEagerSize(v, rhs, f, oom) ==
    IF rhs.size > Capacity(v) THEN
        LET cc == CopyCtor(rhs, f, oom)
        IN IF cc.outcome # "ok"
           THEN [cc EXCEPT !.slots = v.slots, !.size = v.size]
           ELSE LET sw  == Swap([slots |-> v.slots, size |-> v.size],
                                [slots |-> cc.slots, size |-> cc.size])
                    old == Dtor(sw.theirs)
                IN [cc EXCEPT !.slots = sw.mine.slots, !.size = rhs.size,
                              !.lost = old.lost, !.frees = old.frees]
    ELSE
        LET m  == Min(v.size, rhs.size)
            s1 == AssignPrefix(v.slots, rhs.slots, m)
            s2 == IF rhs.size < v.size
                  THEN DestroyN(s1, rhs.size, v.size - rhs.size) ELSE s1
            c  == UninitCopyN(rhs.slots, v.size, rhs.size - v.size, s2, v.size, Rest(f, m))
        IN IF f >= 1 /\ f <= m
           THEN [Result(AssignPrefix(v.slots, rhs.slots, f - 1), v.size, "throw")
                   EXCEPT !.stage = "assign", !.pts = m]
           ELSE IF rhs.size > v.size
           THEN IF c.threw
                THEN [Result(c.dst, rhs.size, "throw") EXCEPT !.stage = "fill",
                        !.lost = c.over, !.pts = m + c.pts]
                ELSE [Result(c.dst, rhs.size, "ok") EXCEPT !.lost = c.over, !.pts = m + c.pts]
           ELSE [Result(s2, rhs.size, "ok") EXCEPT !.pts = m]

\* Vector::operator=(const Vector&), this != &rhs
CopyAssign(v, rhs, f, oom) ==
    IF rhs.size > Capacity(v) THEN
        LET cc == CopyCtor(rhs, f, oom)
        IN IF cc.outcome # "ok"
           THEN [cc EXCEPT !.slots = v.slots, !.size = v.size]
           ELSE LET sw  == Swap([slots |-> v.slots, size |-> v.size],
                                [slots |-> cc.slots, size |-> cc.size])
                    old == Dtor(sw.theirs)
                IN [cc EXCEPT !.slots = sw.mine.slots, !.size = rhs.size,
                              !.lost = old.lost, !.frees = old.frees]
    ELSE
        LET m  == Min(v.size, rhs.size)
            s1 == AssignPrefix(v.slots, rhs.slots, m)
            s2 == IF rhs.size < v.size
                  THEN DestroyN(s1, rhs.size, v.size - rhs.size) ELSE s1
            c  == UninitCopyN(rhs.slots, v.size, rhs.size - v.size, s2, v.size, Rest(f, m))
        IN IF f >= 1 /\ f <= m
           THEN [Result(AssignPrefix(v.slots, rhs.slots, f - 1), v.size, "throw")
                   EXCEPT !.stage = "assign", !.pts = m]
           ELSE IF rhs.size > v.size
           THEN IF c.threw
                THEN [Result(c.dst, v.size, "throw") EXCEPT !.stage = "fill",
                        !.lost = c.over, !.pts = m + c.pts]
                ELSE [Result(c.dst, rhs.size, "ok") EXCEPT !.lost = c.over, !.pts = m + c.pts]
           ELSE [Result(s2, rhs.size, "ok") EXCEPT !.pts = m]

\* const T& value referring to the element data_[j] of the vector itself,
\* read while the buffer is s
Deref(s, j) == s[j + 1]

\* Vector::PushBack(const T&) with value referring to data_[j]: in each branch
\* that has elements the first step on T is T(value) (lines 290, 296), so
\* value is read while the buffer is as at entry
PushBackAlias(k, v, j, f, oom) == PushBack(k, v, Deref(v.slots, j), f, oom)

\* Vector::Insert(const_iterator, const T&) with value referring to data_[j]:
\* T(args) is the first step on T in the growth path (line 363) and in the
\* in-place path (T temp, line 374)
InsertAlias(k, v, p, j, f, oom, ubc) == Insert(k, v, p, Deref(v.slots, j), f, oom, ubc)

\* Vector::operator[]: asserts index < size_, then yields a reference to
\* element index, through which the caller stores x
At(v, i, x) ==
    IF ~(i < v.size) THEN AssertFails(v)
    ELSE [Result([v.slots EXCEPT ![i + 1] = x], v.size, "ok") EXCEPT !.ret = i]

\* RawMemory::operator[] on the buffer of capacity Len(buf): nothing is
\* asserted, buffer_[index] is formed whatever index is
RawAt(v, i) ==
    IF i < Capacity(v)
    THEN [Result(v.slots, v.size, "ok") EXCEPT !.ret = i]
    ELSE [Result(v.slots, v.size, "ub") EXCEPT !.stage = "range"]

\* ------------------------------------------------------------------ state
Vec(slots, size) == [alive |-> TRUE, slots |-> slots, size |-> size]
NoVec == [alive |-> FALSE, slots |-> <<>>, size |-> 0]

\* argument vectors: every well-formed vector of capacity at most OtherCap
OtherVecs ==
    { Vec([i \in 1..c |-> IF i <= Len(e) THEN e[i] ELSE "raw"], Len(e)) :
        <<c, e>> \in { ce \in (0..OtherCap) \X UNION {[1..n -> Values] : n \in 0..OtherCap} :
                          Len(ce[2]) <= ce[1] } }

PushOps == {"PushBack", "PushBackMove", "EmplaceBack"}
InsertOps == {"Emplace", "Insert", "InsertMove"}
AliasOps == {"PushBackAlias", "InsertAlias"}

\* last: the call that has just ended (its arguments, the vector before it,
\* what it returned or lost; f: the throwing point chosen; prevN: the argument
\* of the Reserve it followed at once, if any); Idle once the caller has taken
\* note of it
Idle == [op |-> "idle", outcome |-> "ok", pre |-> NoVec, x |-> "-", n |-> -1,
         ret |-> -1, lostNew |-> 0, lost |-> 0, allocs |-> 0, frees |-> 0,
         stage |-> "-", f |-> 0, prevN |-> -1,
         other |-> NoVec, otherPost |-> NoVec, inContract |-> TRUE]

Init ==
    /\ vec = Vec(<<>>, 0)
    /\ tkind \in TKinds
    /\ last = [Idle EXCEPT !.op = "Vector()"]
    /\ clean = TRUE
    /\ pushes = 0

Callable == last.op = "idle"

\* the bookkeeping shared by all calls
Done(op, r, f, x, n, other, otherPost, aliveAfter, inContract, fresh) ==
    /\ vec' = IF aliveAfter THEN Vec(r.slots, r.size) ELSE NoVec
    /\ last' = [op |-> op, outcome |-> r.outcome, pre |-> vec, x |-> x, n |-> n,
                ret |-> r.ret, lostNew |-> r.lostNew, lost |-> r.lost,
                allocs |-> r.allocs, frees |-> r.frees, stage |-> r.stage, f |-> f,
                prevN |-> IF op = "Reserve" /\ last.op = "Reserve" THEN last.n ELSE -1,
                other |-> other, otherPost |-> otherPost, inContract |-> inContract]
    /\ clean' = ((fresh \/ clean) /\ r.outcome = "ok" /\ inContract)
    /\ pushes' = IF op = "Vector()" THEN 0
                 ELSE IF op \in PushOps /\ pushes >= 0 /\ r.outcome = "ok"
                      THEN pushes + 1 ELSE -1
    /\ UNCHANGED tkind

Plain(v) == [slots |-> v.slots, size |-> v.size]
GrowthFits(v) == v.size = Capacity(v) => Max(1, 2 * Capacity(v)) <= MaxCap

\* The fault choices worth drawing for a call whose fault-free run is r0: one
\* per throwing point it passes, and a failing operator new if it allocates.
FaultsOf(r0) == 0 .. r0.pts
OomOf(r0) == IF r0.allocs > 0 THEN BOOLEAN ELSE {FALSE}
Distinct(r, f, oom, ubc) ==
    /\ oom => f = 0
    /\ ubc = "crash" => (f = 0 /\ ~oom /\ r.outcome = "ub")

\* the positions a caller passes: those of [begin(), end()] and one on
\* either side of it
Positions(v) == -1 .. (v.size + 1)
InRange(v, p) == p >= 0 /\ p <= v.size

\* ---------------------------------------------------------------- actions
DoDefaultCtor ==
    /\ Callable /\ ~vec.alive
    /\ Done("Vector()", Result(<<>>, 0, "ok"), 0, "-", -1, NoVec, NoVec, TRUE, TRUE, TRUE)

DoSizedCtor ==
    /\ Callable /\ ~vec.alive
    /\ \E n \in 0..MaxCap :
       \E f \in FaultsOf(SizedCtor(n, 0, FALSE)), oom \in OomOf(SizedCtor(n, 0, FALSE)) :
         LET r == SizedCtor(n, f, oom)
         IN Distinct(r, f, oom, "noop")
            /\ Done("Vector(n)", r, f, "-", n, NoVec, NoVec, r.outcome = "ok", TRUE, TRUE)

DoCopyCtor ==
    /\ Callable /\ ~vec.alive /\ Copyable(tkind)
    /\ \E other \in OtherVecs :
       \E f \in FaultsOf(CopyCtor(other, 0, FALSE)), oom \in OomOf(CopyCtor(other, 0, FALSE)) :
         LET r == CopyCtor(other, f, oom)
         IN Distinct(r, f, oom, "noop")
            /\ Done("Vector(const&)", r, f, "-", -1, other, other, r.outcome = "ok", TRUE, TRUE)

DoMoveCtor ==
    /\ Callable /\ ~vec.alive
    /\ \E other \in OtherVecs :
         LET sw == Swap([slots |-> <<>>, size |-> 0], Plain(other))
         IN Done("Vector(&&)", Result(sw.mine.slots, sw.mine.size, "ok"), 0, "-", -1,
                 other, Vec(sw.theirs.slots, sw.theirs.size), TRUE, TRUE, TRUE)

DoDtor ==
    /\ Callable /\ vec.alive
    /\ Done("~Vector", Dtor(vec), 0, "-", -1, NoVec, NoVec, FALSE, TRUE, FALSE)

DoCopyAssign ==
    /\ Callable /\ vec.alive /\ Copyable(tkind)
    /\ \E other \in OtherVecs :
       \E f \in FaultsOf(CopyAssign(vec, other, 0, FALSE)),
          oom \in OomOf(CopyAssign(vec, other, 0, FALSE)) :
         LET r == CopyAssign(vec, other, f, oom)
         IN Distinct(r, f, oom, "noop")
            /\ Done("operator=(const&)", r, f, "-", -1, other, other, TRUE, TRUE, FALSE)

DoCopyAssignSelf ==
    /\ Callable /\ vec.alive /\ Copyable(tkind)
    /\ Done("operator=(self)", Result(vec.slots, vec.size, "ok"), 0, "-", -1,
            vec, vec, TRUE, TRUE, FALSE)

DoMoveAssign ==
    /\ Callable /\ vec.alive
    /\ \E other \in OtherVecs :
         LET sw == Swap(Plain(vec), Plain(other))
         IN Done("operator=(&&)", Result(sw.mine.slots, sw.mine.size, "ok"), 0, "-", -1,
                 other, Vec(sw.theirs.slots, sw.theirs.size), TRUE, TRUE, FALSE)

DoMoveAssignSelf ==
    /\ Callable /\ vec.alive
    /\ LET sw == Swap(Plain(vec), Plain(vec))
       IN Done("operator=(&&self)", Result(sw.mine.slots, sw.mine.size, "ok"), 0, "-", -1,
               vec, Vec(sw.theirs.slots, sw.theirs.size), TRUE, TRUE, FALSE)

DoSwap ==
    /\ Callable /\ vec.alive
    /\ \E other \in OtherVecs :
         LET sw == Swap(Plain(vec), Plain(other))
         IN Done("Swap", Result(sw.mine.slots, sw.mine.size, "ok"), 0, "-", -1,
                 other, Vec(sw.theirs.slots, sw.theirs.size), TRUE, TRUE, FALSE)

\* a Reserve may also be the second of two successive Reserve calls
DoReserve ==
    /\ Callable \/ (last.op = "Reserve" /\ last.outcome = "ok" /\ last.prevN = -1)
    /\ vec.alive
    /\ \E c \in 0..MaxCap :
       \E f \in FaultsOf(Reserve(tkind, vec, c, 0, FALSE)),
          oom \in OomOf(Reserve(tkind, vec, c, 0, FALSE)) :
         LET r == Reserve(tkind, vec, c, f, oom)
         IN Distinct(r, f, oom, "noop")
            /\ Done("Reserve", r, f, "-", c, NoVec, NoVec, TRUE, TRUE, FALSE)

DoResize ==
    /\ Callable /\ vec.alive
    /\ \E n \in 0..MaxCap :
       \E f \in FaultsOf(Resize(tkind, vec, n, 0, FALSE)),
          oom \in OomOf(Resize(tkind, vec, n, 0, FALSE)) :
         LET r == Resize(tkind, vec, n, f, oom)
         IN Distinct(r, f, oom, "noop")
            /\ Done("Resize", r, f, "-", n, NoVec, NoVec, TRUE, TRUE, FALSE)

DoPushBack ==
    /\ Callable /\ vec.alive /\ Copyable(tkind) /\ GrowthFits(vec)
    /\ \E x \in Values :
       \E f \in FaultsOf(PushBack(tkind, vec, x, 0, FALSE)),
          oom \in OomOf(PushBack(tkind, vec, x, 0, FALSE)) :
         LET r == PushBack(tkind, vec, x, f, oom)
         IN Distinct(r, f, oom, "noop")
            /\ Done("PushBack", r, f, x, -1, NoVec, NoVec, TRUE, TRUE, FALSE)

DoPushBackMove ==
    /\ Callable /\ vec.alive /\ GrowthFits(vec)
    /\ \E x \in Values :
       \E f \in FaultsOf(PushBackMove(tkind, vec, x, 0, FALSE)),
          oom \in OomOf(PushBackMove(tkind, vec, x, 0, FALSE)) :
         LET r == PushBackMove(tkind, vec, x, f, oom)
         IN Distinct(r, f, oom, "noop")
            /\ Done("PushBackMove", r, f, x, -1, NoVec, NoVec, TRUE, TRUE, FALSE)

DoEmplaceBack ==
    /\ Callable /\ vec.alive /\ GrowthFits(vec)
    /\ \E x \in Values :
       \E f \in FaultsOf(EmplaceBack(tkind, vec, x, 0, FALSE)),
          oom \in OomOf(EmplaceBack(tkind, vec, x, 0, FALSE)) :
         LET r == EmplaceBack(tkind, vec, x, f, oom)
         IN Distinct(r, f, oom, "noop")
            /\ Done("EmplaceBack", r, f, x, -1, NoVec, NoVec, TRUE, TRUE, FALSE)

DoPopBack ==
    /\ Callable /\ vec.alive
    /\ Done("PopBack", PopBack(vec), 0, "-", -1, NoVec, NoVec, TRUE, TRUE, FALSE)

DoEmplace ==
    /\ Callable /\ vec.alive /\ GrowthFits(vec)
    /\ \E p \in Positions(vec), x \in Values, ubc \in InvertedRange :
       \E f \in FaultsOf(Emplace(tkind, vec, p, x, 0, FALSE, TRUE, "noop")),
          oom \in OomOf(Emplace(tkind, vec, p, x, 0, FALSE, TRUE, "noop")) :
         LET r == Emplace(tkind, vec, p, x, f, oom, TRUE, ubc)
         IN Distinct(r, f, oom, ubc)
            /\ Done("Emplace", r, f, x, p, NoVec, NoVec, TRUE, InRange(vec, p), FALSE)

DoInsert ==
    /\ Callable /\ vec.alive /\ Copyable(tkind) /\ GrowthFits(vec)
    /\ \E p \in Positions(vec), x \in Values, ubc \in InvertedRange :
       \E f \in FaultsOf(Insert(tkind, vec, p, x, 0, FALSE, "noop")),
          oom \in OomOf(Insert(tkind, vec, p, x, 0, FALSE, "noop")) :
         LET r == Insert(tkind, vec, p, x, f, oom, ubc)
         IN Distinct(r, f, oom, ubc)
            /\ Done("Insert", r, f, x, p, NoVec, NoVec, TRUE, InRange(vec, p), FALSE)

DoInsertMove ==
    /\ Callable /\ vec.alive /\ GrowthFits(vec)
    /\ \E p \in Positions(vec), x \in Values, ubc \in InvertedRange :
       \E f \in FaultsOf(InsertMove(tkind, vec, p, x, 0, FALSE, "noop")),
          oom \in OomOf(InsertMove(tkind, vec, p, x, 0, FALSE, "noop")) :
         LET r == InsertMove(tkind, vec, p, x, f, oom, ubc)
         IN Distinct(r, f, oom, ubc)
            /\ Done("InsertMove", r, f, x, p, NoVec, NoVec, TRUE, InRange(vec, p), FALSE)

DoErase ==
    /\ Callable /\ vec.alive
    /\ \E p \in Positions(vec), ubc \in InvertedRange :
       \E f \in FaultsOf(Erase(vec, p, 0, "noop")) :
         LET r == Erase(vec, p, f, ubc)
         IN Distinct(r, f, FALSE, ubc)
            /\ Done("Erase", r, f, "-", p, NoVec, NoVec, TRUE, p >= 0 /\ p < vec.size, FALSE)

DoPushBackAlias ==
    /\ Callable /\ vec.alive /\ Copyable(tkind) /\ GrowthFits(vec)
    /\ \E j \in 0..(vec.size - 1) :
       \E f \in FaultsOf(PushBackAlias(tkind, vec, j, 0, FALSE)),
          oom \in OomOf(PushBackAlias(tkind, vec, j, 0, FALSE)) :
         LET r == PushBackAlias(tkind, vec, j, f, oom)
         IN Distinct(r, f, oom, "noop")
            /\ Done("PushBackAlias", r, f, Deref(vec.slots, j), vec.size, NoVec, NoVec,
                    TRUE, TRUE, FALSE)

DoInsertAlias ==
    /\ Callable /\ vec.alive /\ Copyable(tkind) /\ GrowthFits(vec)
    /\ \E p \in 0..vec.size, j \in 0..(vec.size - 1), ubc \in InvertedRange :
       \E f \in FaultsOf(InsertAlias(tkind, vec, p, j, 0, FALSE, "noop")),
          oom \in OomOf(InsertAlias(tkind, vec, p, j, 0, FALSE, "noop")) :
         LET r == InsertAlias(tkind, vec, p, j, f, oom, ubc)
         IN Distinct(r, f, oom, ubc)
            /\ Done("InsertAlias", r, f, Deref(vec.slots, j), p, NoVec, NoVec,
                    TRUE, TRUE, FALSE)

DoAt ==
    /\ Callable /\ vec.alive
    /\ \E i \in 0..vec.size, x \in Values :
         Done("operator[]", At(vec, i, x), 0, x, i, NoVec, NoVec, TRUE, i < vec.size, FALSE)

DoRawAt ==
    /\ Callable /\ vec.alive
    /\ \E i \in 0..Capacity(vec) :
         Done("RawMemory[]", RawAt(vec, i), 0, "-", i, NoVec, NoVec, TRUE,
              i < Capacity(vec), FALSE)

\* the caller takes note of the ended call; after undefined behaviour or a
\* failed assertion there is no caller left
Settle ==
    /\ last.op # "idle" /\ last.outcome \notin {"ub", "assert"}
    /\ last' = Idle
    /\ UNCHANGED <<vec, tkind, clean, pushes>>

Next ==
    \/ DoDefaultCtor \/ DoSizedCtor \/ DoCopyCtor \/ DoMoveCtor \/ DoDtor
    \/ DoCopyAssign \/ DoCopyAssignSelf \/ DoMoveAssign \/ DoMoveAssignSelf \/ DoSwap
    \/ DoReserve \/ DoResize
    \/ DoPushBack \/ DoPushBackMove \/ DoEmplaceBack \/ DoPopBack
    \/ DoEmplace \/ DoInsert \/ DoInsertMove \/ DoErase
    \/ DoPushBackAlias \/ DoInsertAlias
    \/ DoAt \/ DoRawAt
    \/ Settle

Spec == Init /\ [][Next]_vars

\* ------------------------------------------------------------- sanity
TypeOK ==
    /\ vec.alive \in BOOLEAN
    /\ vec.size \in 0..SizeModulus
    /\ \A i \in DOMAIN vec.slots : vec.slots[i] \in Objects \cup {"raw"}
    /\ Len(vec.slots) <= MaxCap
    /\ tkind \in TKinds

\* no call that returns or throws leaves a raw slot below size_
NoRawBelowSize ==
    last.outcome # "ub" => \A i \in 1..vec.size : i <= Len(vec.slots) /\ vec.slots[i] # "raw"

\* ============================================================= properties
GrowOps == {"Reserve"} \cup PushOps
WellFormed(v) ==
    /\ v.size <= Capacity(v)
    /\ \A i \in 1..Capacity(v) : (i <= v.size) <=> (v.slots[i] # "raw")
Elems(v) == SubSeq(v.slots, 1, v.size)
Inserted(e, p, x) == SubSeq(e, 1, p) \o <<x>> \o SubSeq(e, p + 1, Len(e))
Full(v) == v.size = Capacity(v)

\* C1: after any sequence of calls made within their contracts that all
\* returned normally, Size() <= Capacity(), the slots [0, Size()) hold live
\* objects and the slots [Size(), Capacity()) are raw.
C1_Invariant == (vec.alive /\ clean) => WellFormed(vec)

C1_Witness ==
    /\ vec.alive /\ clean /\ last.op = "Erase"
    /\ last.pre.size = 3 /\ Capacity(vec) = 4 /\ vec.size = 2

\* C2: a successful Emplace / Insert at any p in [0, Size()], growing or not,
\* yields e_0..e_{p-1}, x, e_p..e_{n-1} with Size() = n + 1 and returns the
\* position p.
C2_InsertsAtPosition ==
    (last.op \in InsertOps /\ last.outcome = "ok" /\ clean) =>
        /\ vec.size = last.pre.size + 1
        /\ Elems(vec) = Inserted(Elems(last.pre), last.n, last.x)
        /\ last.ret = last.n

\* C3: when the construction of the new element throws in the growth case
\* (Size() = Capacity(), Capacity() = 0 included) of PushBack, EmplaceBack or
\* Emplace, size, capacity and elements are as before the call.
C3_ConstructThrowUnchanged ==
    (/\ last.op \in PushOps \cup InsertOps
     /\ last.outcome = "throw" /\ last.stage = "construct"
     /\ Full(last.pre)) =>
        /\ vec.size = last.pre.size
        /\ Capacity(vec) = Capacity(last.pre)
        /\ vec.slots = last.pre.slots

\* C4: when a construction or relocation into the new buffer of a growing
\* Reserve, PushBack, EmplaceBack or Emplace throws, no object is left live in
\* the released new buffer.
C4_NewBufferUnwound ==
    (/\ last.op \in GrowOps \cup InsertOps
     /\ last.outcome = "throw" /\ last.stage \in {"construct", "relocate"}) =>
        last.lostNew = 0

\* C5: when a T operation throws in Emplace with Size() < Capacity(), the
\* vector is left well formed (live exactly below Size()) and its destructor
\* destroys every live object.
C5_InPlaceThrowBasic ==
    (/\ last.op \in InsertOps /\ last.outcome = "throw"
     /\ WellFormed(last.pre) /\ ~Full(last.pre)) =>
        /\ WellFormed(vec)
        /\ Dtor(vec).lost = 0

\* C6: when the construction of element k throws in Vector(n) or in the copy
\* constructor, the k elements built are destroyed and the storage is
\* released: no vector, no live object, no buffer remains.
C6_CtorThrowUnwinds ==
    (last.op \in {"Vector(n)", "Vector(const&)"} /\ last.outcome = "throw") =>
        /\ ~vec.alive
        /\ last.lostNew = 0 /\ last.lost = 0
        /\ last.allocs = last.frees

C6_Witness ==
    /\ last.op = "Vector(n)" /\ last.outcome = "throw" /\ last.stage = "fill"
    /\ last.n = 3 /\ last.f = 3 /\ last.allocs = 1

\* C7: after a successful PushBack (copy or move) or EmplaceBack of x, Size()
\* is oldSize + 1, the element at oldSize is x and the elements below oldSize
\* are as before, growing or not.
C7_AppendsAtEnd ==
    (last.op \in PushOps /\ last.outcome = "ok") =>
        /\ vec.size = last.pre.size + 1
        /\ vec.slots[last.pre.size + 1] = last.x
        /\ \A i \in 1..last.pre.size : vec.slots[i] = last.pre.slots[i]

C7_Witness ==
    /\ last.op = "PushBackMove" /\ last.outcome = "ok"
    /\ Full(last.pre) /\ last.pre.slots = <<"x", "d">> /\ last.x = "x"
    /\ Elems(vec) = <<"x", "d", "x">>

\* the capacity after n appends to an empty vector: 0, 1, 2, 4, 4, 8, ...
RECURSIVE Doubled(_, _)
Doubled(c, n) == IF c >= n THEN c ELSE Doubled(2 * c, n)
CapacityAfter(n) == IF n = 0 THEN 0 ELSE Doubled(1, n)

\* C8: PushBack, EmplaceBack and Emplace change Capacity() only when the
\* vector was full, and then to max(1, 2 * old capacity); appends to an empty
\* vector take the capacity through 0, 1, 2, 4, ...
C8_GrowthDoubling ==
    /\ last.op \in PushOps \cup InsertOps =>
          /\ Capacity(vec) # Capacity(last.pre) =>
                (Full(last.pre) /\ Capacity(vec) = Max(1, 2 * Capacity(last.pre)))
          /\ (last.outcome = "ok" /\ Full(last.pre)) =>
                Capacity(vec) = Max(1, 2 * Capacity(last.pre))
    /\ pushes >= 0 => Capacity(vec) = CapacityAfter(pushes)

C8_Witness ==
    /\ pushes = 3 /\ Capacity(vec) = 4 /\ Capacity(last.pre) = 2
    /\ last.op = "PushBack"

\* C9: a Reserve(c) that returns leaves the vector as it is when c <=
\* Capacity() and otherwise makes Capacity() exactly c; Size() and the elements
\* are unchanged either way.
C9_ReserveFrame ==
    (last.op = "Reserve" /\ last.outcome = "ok") =>
        /\ last.n <= Capacity(last.pre) => vec.slots = last.pre.slots
        /\ last.n > Capacity(last.pre) => Capacity(vec) = last.n
        /\ vec.size = last.pre.size
        /\ \A i \in 1..vec.size : vec.slots[i] = last.pre.slots[i]

C9_Witness ==
    /\ last.op = "Reserve" /\ last.outcome = "ok"
    /\ last.n = 3 /\ Capacity(last.pre) = 2 /\ last.pre.size = 2
    /\ last.allocs = 1

\* C10: no Reserve, PushBack or EmplaceBack call lowers Capacity(), and a
\* Reserve(c2) made right after a Reserve(c1) that returned, with c2 <= c1,
\* allocates nothing.
C10_CapacityMonotone ==
    [][/\ last'.op \in GrowOps => Capacity(vec') >= Capacity(vec)
       /\ (last'.op = "Reserve" /\ last'.prevN >= last'.n) => last'.allocs = 0]_vars

C10_Witness ==
    /\ last.op = "Reserve" /\ last.prevN = 3 /\ last.n = 2
    /\ Capacity(vec) = 3 /\ vec.size = 1 /\ last.allocs = 0
\* C11: after a Resize(n) that returns, Size() = n, the elements below
\* min(old size, n) keep their values, the elements from the old size up to n
\* hold the default value, and when shrinking the slots from n up to the old
\* size are destroyed while Capacity() stays as it was.
C11_ResizeResult ==
    (last.op = "Resize" /\ last.outcome = "ok") =>
        /\ vec.size = last.n
        /\ \A i \in 1..Min(last.pre.size, last.n) : vec.slots[i] = last.pre.slots[i]
        /\ \A i \in (last.pre.size + 1)..last.n : vec.slots[i] = DefaultValue
        /\ last.n < last.pre.size =>
              /\ \A i \in (last.n + 1)..last.pre.size : vec.slots[i] = "raw"
              /\ Capacity(vec) = Capacity(last.pre)

C11_Witness ==
    /\ last.op = "Resize" /\ last.outcome = "ok"
    /\ last.pre.size = 3 /\ last.n = 1 /\ Capacity(vec) = 4
    /\ last.pre.slots[1] = "x" /\ vec.slots[1] = "x"

\* C12: after a copy assignment a = b that returns, a has the size and the
\* elements of b and b is as it was, whichever of the two is longer and
\* whether or not b.Size() exceeds a.Capacity(); when b.Size() <=
\* a.Capacity() the capacity of a is unchanged; a self-assignment leaves a
\* as it was.
C12_CopyAssignResult ==
    /\ (last.op = "operator=(const&)" /\ last.outcome = "ok") =>
          /\ vec.size = last.other.size
          /\ Elems(vec) = Elems(last.other)
          /\ last.otherPost = last.other
          /\ last.other.size <= Capacity(last.pre) => Capacity(vec) = Capacity(last.pre)
    /\ last.op = "operator=(self)" => (last.outcome = "ok" /\ vec = last.pre)

C12_Witness ==
    /\ last.op = "operator=(const&)" /\ last.outcome = "ok"
    /\ last.pre.size = 1 /\ Capacity(last.pre) = 2 /\ last.other.size = 2
    /\ last.pre.slots[1] # last.other.slots[1]
    /\ Elems(vec) = Elems(last.other)

\* C13: when a copy assignment a = b throws, on the copy-and-swap path
\* (b.Size() > a.Capacity()) a is exactly as before the call, and on the
\* in-place path a is left with the slots [0, Size()) all live and no live
\* object outside them.
C13_CopyAssignThrow ==
    (last.op = "operator=(const&)" /\ last.outcome = "throw" /\ WellFormed(last.pre)) =>
        /\ last.other.size > Capacity(last.pre) => vec = last.pre
        /\ last.other.size <= Capacity(last.pre) => WellFormed(vec)

C13_Witness ==
    /\ last.op = "operator=(const&)" /\ last.outcome = "throw" /\ WellFormed(last.pre)
    /\ last.stage = "fill" /\ last.f = 2
    /\ last.pre.size = 0 /\ last.other.size = 2 /\ Capacity(last.pre) >= 2

\* C14: move construction from S leaves S with Size() = 0 and Capacity() = 0
\* and gives the new vector S's buffer: the original elements in order and
\* the original capacity; no element is constructed, copied or destroyed and
\* nothing is allocated or released.
C14_MoveCtor ==
    last.op = "Vector(&&)" =>
        /\ last.outcome = "ok"
        /\ last.otherPost.size = 0 /\ Capacity(last.otherPost) = 0
        /\ vec.size = last.other.size
        /\ vec.slots = last.other.slots
        /\ last.allocs = 0 /\ last.frees = 0 /\ last.lost = 0 /\ last.lostNew = 0

C14_Witness ==
    /\ last.op = "Vector(&&)" /\ last.outcome = "ok"
    /\ last.other.size = 1 /\ Capacity(last.other) = 2
    /\ vec.size = 1 /\ Capacity(vec) = 2

\* C15: a move assignment a = std::move(b) exchanges the buffers and sizes
\* of a and b: a ends with b's former elements and capacity, b with a's; no
\* element is constructed or destroyed; a self move-assignment leaves the
\* vector as it was.
C15_MoveAssignSwaps ==
    /\ last.op = "operator=(&&)" =>
          /\ last.outcome = "ok"
          /\ Plain(vec) = Plain(last.other)
          /\ Plain(last.otherPost) = Plain(last.pre)
          /\ last.allocs = 0 /\ last.frees = 0 /\ last.lost = 0 /\ last.lostNew = 0
    /\ last.op = "operator=(&&self)" =>
          /\ last.outcome = "ok"
          /\ vec = last.pre
          /\ last.otherPost = last.pre

C15_Witness ==
    /\ last.op = "operator=(&&)" /\ last.outcome = "ok"
    /\ last.pre.size = 3 /\ Capacity(last.pre) = 4
    /\ last.other.size = 1 /\ Capacity(last.other) = 2
    /\ vec.size = 1 /\ last.otherPost.size = 3

\* C16: for a vector of n >= 1 elements and 0 <= p < n, Erase(p) yields
\* e_0..e_{p-1}, e_{p+1}..e_{n-1} with Size() = n - 1 and Capacity()
\* unchanged, destroys exactly one object, and returns the position p.
C16_EraseResult ==
    (last.op = "Erase" /\ last.outcome = "ok" /\ last.inContract) =>
        /\ vec.size = last.pre.size - 1
        /\ Elems(vec) = SubSeq(Elems(last.pre), 1, last.n)
                           \o SubSeq(Elems(last.pre), last.n + 2, last.pre.size)
        /\ Capacity(vec) = Capacity(last.pre)
        /\ LiveCount(vec.slots) = LiveCount(last.pre.slots) - 1
        /\ vec.slots[last.pre.size] = "raw"
        /\ last.ret = last.n

C16_Witness ==
    /\ last.op = "Erase" /\ last.outcome = "ok" /\ last.inContract
    /\ last.pre.size = 3 /\ last.n = 0
    /\ last.pre.slots[2] # last.pre.slots[3]
    /\ vec.size = 2 /\ vec.slots[1] = last.pre.slots[2] /\ vec.slots[2] = last.pre.slots[3]

\* C17: in a build with assertions every call outside its contract is
\* stopped by a failed assertion before anything changes: operator[] with
\* index >= Size(), Emplace / Insert with a position outside [begin(),
\* end()], Erase with a position that designates no live element (end() and
\* any position of an empty vector included), RawMemory::operator[] with
\* index >= capacity; so no call that passes the assertions takes Size()
\* below 0.
C17_ContractViolationsAsserted ==
    /\ (/\ last.op \in {"operator[]", "RawMemory[]", "Erase"} \cup InsertOps
        /\ ~last.inContract) =>
          (last.outcome = "assert" /\ vec = last.pre)
    /\ (last.op \in {"Erase", "PopBack"} /\ last.outcome # "assert") =>
          vec.size <= last.pre.size

C19_ReallocationStrong ==
    (/\ last.op \in {"Reserve", "Resize"} \cup PushOps \cup InsertOps \cup AliasOps
     /\ last.outcome = "throw"
     /\ last.stage = "alloc" \/ (last.stage = "relocate" /\ tkind = "copying")) =>
        /\ vec.size = last.pre.size
        /\ Capacity(vec) = Capacity(last.pre)
        /\ vec.slots = last.pre.slots

C19_Witness ==
    /\ last.op = "Reserve" /\ last.outcome = "throw" /\ last.stage = "relocate"
    /\ tkind = "copying" /\ last.f = 2 /\ last.pre.size = 2
    /\ vec = last.pre

\* C20: when the argument of PushBack(const T&) or Insert(pos, const T&)
\* refers to an element of the vector itself, the inserted element equals
\* the value that element had before the call, growing or not, and all the
\* other elements keep their values.
C20_AliasedArgument ==
    (last.op \in AliasOps /\ last.outcome = "ok" /\ clean) =>
        /\ vec.size = last.pre.size + 1
        /\ Elems(vec) = Inserted(Elems(last.pre), last.n, last.x)

====
